---- MODULE Spec2Model ----
(***************************************************************************)
(* Model of cmdparser_c: the demo program src/main.c and the option parser *)
(* it calls.  Strings are tuples of one-character strings, so that prefix  *)
(* tests, the split on '=' and the walk over a short-option cluster are    *)
(* computed character by character.  Indices i, j, k and pos_index are the *)
(* C (0-based) indices; args[n] of the program is argv[n + 1] here.        *)
(***************************************************************************)
EXTENDS Integers, Sequences, FiniteSets, TLC

VARIABLES
    argv,       \* the argument vector, argv[1] is the program name
    slots,      \* main's locals help_flag, verbose_flag, output_file, input_file
    pc,         \* "parse" (inside parse_options), "check", "loop", "done"
    i,          \* parse cursor: index of the token under inspection
    j,          \* index of the next character of a short cluster in args[i]
    written,    \* descriptors whose slot the scan has written
    pos_index,  \* result of parse_options: first positional index, -1 = failure
    err,        \* the failure: kind and descriptor
    k,          \* main's loop variable over the positional arguments
    out,        \* lines the demo has printed
    status,     \* exit status of main, -1 while running
    writes,     \* history: every write to a slot, in order
    examined    \* history: indices of the tokens parse_options has read

vars == <<argv, slots, pc, i, j, written, pos_index, err, k, out, status,
          writes, examined>>

\* The absent pointer.  No C string is a one-element tuple holding a
\* four-character string, so NULL differs from every string, also from "".
NULL == <<"NULL">>

-----------------------------------------------------------------------------
(* Inputs *)

MaxArgs == 3

ProgName == <<"p", "r", "o", "g">>

Tokens ==
    { <<"a">>,
      <<"-">>,
      <<"-", "-">>,
      <<"-", "h">>,
      <<"-", "v">>,
      <<"-", "o">>,
      <<"-", "i">>,
      <<"-", "h", "v">>,
      <<"-", "v", "o">>,
      <<"-", "v", "o", "x">>,
      <<"-", "o", "x">>,
      <<"-", "v", "z">>,
      <<"-", "-", "h", "e", "l", "p">>,
      <<"-", "-", "o", "u", "t", "p", "u", "t">>,
      <<"-", "-", "o", "u", "t", "p", "u", "t", "=", "x">>,
      <<"-", "-", "h", "e", "l", "p", "=", "x">>,
      <<"-", "-", "b", "o", "g", "u", "s">> }

Scenarios ==
    { <<<<"p", "r", "o", "g">>, <<"-", "v">>, <<"-", "o">>, <<"o", "u", "t", ".", "t", "x", "t">>, <<"a">>, <<"b">>>>,
      <<<<"p", "r", "o", "g">>, <<"-", "-", "o", "u", "t", "p", "u", "t", "=", "x", ".", "c">>, <<"i", "n", "1">>>>,
      <<<<"p", "r", "o", "g">>, <<"-", "-", "v", "e", "r", "b", "o", "s", "e">>, <<"-", "-">>, <<"-", "h">>, <<"a">>>>,
      <<<<"p", "r", "o", "g">>, <<"-", "-", "o", "u", "t", "p", "u", "t", "=", "x", "=", "y">>, <<"-", "i">>, <<"-">>, <<"-", "v">>>>,
      <<<<"p", "r", "o", "g">>, <<"-", "o", "=", "x">>, <<>>, <<"-", "v">>>>,
      <<<<"p", "r", "o", "g">>, <<"-", "-", "o", "u", "t", "p", "u", "t", "=">>, <<"-", "-", "=", "x">>>>,
      <<<<"p", "r", "o", "g">>, <<"-", "v", "o", "h", "i">>, <<"a">>>>,
      <<<<"-", "v">>>>,
      <<<<"-", "v">>, <<"a">>, <<"-", "h">>>> }

Vectors ==
    { <<ProgName>> \o v : v \in UNION { [1..n -> Tokens] : n \in 0..MaxArgs } }
        \cup Scenarios

-----------------------------------------------------------------------------
(* The demo's option table and locals: src/main.c *)

OptionRows ==
    << [description |-> "Help info", long_name |-> <<"h", "e", "l", "p">>,
        short_name |-> "h", takes_argument |-> 0, default_value |-> NULL,
        output_slot |-> "help_flag"],
       [description |-> "Verbose flag",
        long_name |-> <<"v", "e", "r", "b", "o", "s", "e">>,
        short_name |-> "v", takes_argument |-> 0, default_value |-> NULL,
        output_slot |-> "verbose_flag"],
       [description |-> "Output file",
        long_name |-> <<"o", "u", "t", "p", "u", "t">>,
        short_name |-> "o", takes_argument |-> 1,
        default_value |-> <<"t", "e", "s", "t", ".", "c">>,
        output_slot |-> "output_file"],
       [description |-> "Option sort", long_name |-> NULL,
        short_name |-> "i", takes_argument |-> 1, default_value |-> NULL,
        output_slot |-> "input_file"] >>

\* the verbose row stores through &help_flag
options_VerboseToHelp ==
    [OptionRows EXCEPT ![2].output_slot = "help_flag"]

\* the output row stores through &input_file
options_OutputToInput ==
    [OptionRows EXCEPT ![3].output_slot = "input_file"]

\* the output row's short name is 'O'
options_OutputShortTypo ==
    [OptionRows EXCEPT ![3].short_name = "O"]

\* the output row has no default
options_NoDefault ==
    [OptionRows EXCEPT ![3].default_value = NULL]

\* the short names of the output and the input row are exchanged
options_ShortNamesSwapped ==
    [OptionRows EXCEPT ![3].short_name = "i", ![4].short_name = "o"]

\* meta.options, as handed to parse_options
options == OptionRows

options_count == Len(options)

OptIdx == 1..options_count

InitSlots ==
    [help_flag |-> 0, verbose_flag |-> 0, output_file |-> NULL,
     input_file |-> NULL]

argc == Len(argv)

\* args[n], n a C index
Arg(n) == argv[n + 1]

-----------------------------------------------------------------------------
(* Token classification and lookup: parse, step 2 *)

StartsWithDash(t) == Len(t) >= 1 /\ t[1] = "-"

IsPositional(t) == ~StartsWithDash(t) \/ t = <<"-">>

IsTerminator(t) == t = <<"-", "-">>

IsLong(t) == Len(t) > 2 /\ t[1] = "-" /\ t[2] = "-"

IsShort(t) == Len(t) > 1 /\ t[1] = "-" /\ t[2] # "-"

\* position of the first '=' of a long token, 0 when it has none
EqPos(t) ==
    LET eqs == { n \in 3..Len(t) : t[n] = "=" }
    IN  IF eqs = {} THEN 0 ELSE CHOOSE n \in eqs : \A m \in eqs : n <= m

HasAttached(t) == EqPos(t) # 0

LongName(t) == SubSeq(t, 3, IF HasAttached(t) THEN EqPos(t) - 1 ELSE Len(t))

AttachedValue(t) == SubSeq(t, EqPos(t) + 1, Len(t))

\* descriptor index by long name, 0 when no descriptor has it
FindLong(name) ==
    LET ds == { d \in OptIdx : options[d].long_name # NULL
                               /\ options[d].long_name = name }
    IN  IF ds = {} THEN 0 ELSE CHOOSE d \in ds : \A e \in ds : d <= e

\* descriptor index by short name, 0 when no descriptor has it
FindShort(c) ==
    LET ds == { d \in OptIdx : options[d].short_name = c }
    IN  IF ds = {} THEN 0 ELSE CHOOSE d \in ds : \A e \in ds : d <= e

-----------------------------------------------------------------------------
(* parse: results of one step *)

NoErr == [kind |-> "none", opt |-> 0]

\* the defaults overwrite what the scan has written
Defaulted_Always(w) ==
    { d \in OptIdx : /\ options[d].takes_argument = 1
                     /\ options[d].default_value # NULL }

\* descriptors that get their default at the end of a successful scan
Defaulted(w) ==
    { d \in OptIdx : /\ options[d].takes_argument = 1
                     /\ d \notin w
                     /\ options[d].default_value # NULL }

WithDefaults(s, w) ==
    [h \in DOMAIN s |->
        IF \E d \in Defaulted(w) : options[d].output_slot = h
        THEN options[CHOOSE d \in Defaulted(w) :
                        options[d].output_slot = h].default_value
        ELSE s[h]]

DefaultWrites(w) ==
    LET ev(d) == [opt |-> d, val |-> options[d].default_value, at |-> -1]
        RECURSIVE evs(_)
        evs(d) == IF d > options_count THEN <<>>
                  ELSE (IF d \in Defaulted(w) THEN <<ev(d)>> ELSE <<>>)
                       \o evs(d + 1)
    IN  evs(1)

\* write val to the slot of descriptor d and move the cursor n tokens on
Advance(d, val, n, nj, ex) ==
    /\ slots' = [slots EXCEPT ![options[d].output_slot] = val]
    /\ written' = written \cup {d}
    /\ writes' = Append(writes, [opt |-> d, val |-> val, at |-> i])
    /\ i' = i + n
    /\ j' = nj
    /\ examined' = examined \cup ex
    /\ UNCHANGED <<argv, pc, pos_index, err, k, out, status>>

\* a parse error: the scan ends where it is
Failure(kind, d) ==
    /\ pos_index' = -1
    /\ err' = [kind |-> kind, opt |-> d]
    /\ pc' = "check"
    /\ examined' = examined \cup {i}
    /\ UNCHANGED <<argv, slots, i, j, written, k, out, status, writes>>

\* success: apply the defaults and return p
Return(p, ex) ==
    /\ pos_index' = p
    /\ slots' = WithDefaults(slots, written)
    /\ writes' = writes \o DefaultWrites(written)
    /\ pc' = "check"
    /\ examined' = examined \cup ex
    /\ UNCHANGED <<argv, i, j, written, err, k, out, status>>

-----------------------------------------------------------------------------
(* parse: the scan *)

ParseStop ==
    /\ pc = "parse" /\ i < argc
    /\ IsPositional(Arg(i))
    /\ Return(i, {i})

\* "--" taken for a positional argument
ParseTerminator_AsPositional ==
    /\ pc = "parse" /\ i < argc
    /\ IsTerminator(Arg(i))
    /\ Return(i, {i})

ParseTerminator ==
    /\ pc = "parse" /\ i < argc
    /\ IsTerminator(Arg(i))
    /\ Return(i + 1, {i})

ParseExhausted ==
    /\ pc = "parse" /\ i >= argc
    /\ Return(argc, {})

ParseLong ==
    /\ pc = "parse" /\ i < argc
    /\ IsLong(Arg(i))
    /\ LET t == Arg(i)
           d == FindLong(LongName(t))
       IN  IF d = 0 THEN Failure("UnknownOption", 0)
           ELSE IF options[d].takes_argument = 0
           THEN IF HasAttached(t) THEN Failure("UnexpectedValue", d)
                ELSE Advance(d, 1, 1, 1, {i})
           ELSE IF HasAttached(t)
                THEN Advance(d, AttachedValue(t), 1, 1, {i})
                ELSE IF i + 1 < argc
                     THEN Advance(d, Arg(i + 1), 2, 1, {i, i + 1})
                     ELSE Failure("MissingArgument", d)

\* one character of a short token; j = 1 at the start of every token
ParseShort ==
    /\ pc = "parse" /\ i < argc
    /\ IsShort(Arg(i))
    /\ LET t == Arg(i)
           d == FindShort(t[j + 1])
       IN  IF d = 0 THEN Failure("UnknownOption", 0)
           ELSE IF options[d].takes_argument = 0
           THEN IF j + 1 < Len(t) THEN Advance(d, 1, 0, j + 1, {i})
                ELSE Advance(d, 1, 1, 1, {i})
           ELSE IF j + 1 < Len(t)
                THEN Advance(d, SubSeq(t, j + 2, Len(t)), 1, 1, {i})
                ELSE IF i + 1 < argc
                     THEN Advance(d, Arg(i + 1), 2, 1, {i, i + 1})
                     ELSE Failure("MissingArgument", d)

-----------------------------------------------------------------------------
(* main, after parse_options has returned *)

Line(what, n, text) == [line |-> what, n |-> n, text |-> text]

Exit(code) ==
    /\ status' = code
    /\ pc' = "done"

ParseFailed_OnlyBelow == pos_index < -1

\* main.c:27
ParseFailed == pos_index < 0

FirstPositional_OffByOne == pos_index + 1

\* main.c:46, the loop's first index
FirstPositional == pos_index

LoopCond_OffByOne == k <= argc

\* main.c:46, the loop's condition
LoopCond == k < argc

MainFail ==
    /\ pc = "check"
    /\ ParseFailed
    /\ Exit(1)
    /\ UNCHANGED <<argv, slots, i, j, written, pos_index, err, k, out,
                   writes, examined>>

MainHelp ==
    /\ pc = "check"
    /\ ~ParseFailed
    /\ slots.help_flag # 0
    /\ out' = Append(out, Line("help", 0, argv[1]))
    /\ Exit(0)
    /\ UNCHANGED <<argv, slots, i, j, written, pos_index, err, k, writes,
                   examined>>

MainPrint ==
    /\ pc = "check"
    /\ ~ParseFailed
    /\ slots.help_flag = 0
    /\ out' = out
              \o << Line("Verbose mode", 0,
                         IF slots.verbose_flag # 0 THEN <<"O", "N">>
                         ELSE <<"O", "F", "F">>) >>
              \o (IF slots.output_file # NULL
                  THEN << Line("Output file", 0, slots.output_file) >>
                  ELSE <<>>)
              \o << Line("Positional arguments", 0, <<>>) >>
    /\ k' = FirstPositional
    /\ pc' = "loop"
    /\ UNCHANGED <<argv, slots, i, j, written, pos_index, err, status,
                   writes, examined>>

MainLoop ==
    /\ pc = "loop"
    /\ LoopCond
    /\ out' = Append(out, Line("positional", k - pos_index + 1,
                               IF k \in 0..(argc - 1) THEN Arg(k) ELSE NULL))
    /\ k' = k + 1
    /\ UNCHANGED <<argv, slots, pc, i, j, written, pos_index, err, status,
                   writes, examined>>

MainReturn ==
    /\ pc = "loop"
    /\ ~LoopCond
    /\ Exit(0)
    /\ UNCHANGED <<argv, slots, i, j, written, pos_index, err, k, out,
                   writes, examined>>

-----------------------------------------------------------------------------

Init ==
    /\ argv \in Vectors
    /\ slots = InitSlots
    /\ pc = "parse"
    /\ i = 1
    /\ j = 1
    /\ written = {}
    /\ pos_index = 0
    /\ err = NoErr
    /\ k = 0
    /\ out = <<>>
    /\ status = -1
    /\ writes = <<>>
    /\ examined = {}

Next ==
    \/ ParseStop
    \/ ParseTerminator
    \/ ParseExhausted
    \/ ParseLong
    \/ ParseShort
    \/ MainFail
    \/ MainHelp
    \/ MainPrint
    \/ MainLoop
    \/ MainReturn

Spec == Init /\ [][Next]_vars

-----------------------------------------------------------------------------
(* Vocabulary of the properties *)

ParseReturned == pc # "parse"

Succeeded == ParseReturned /\ pos_index >= 0

Failed == ParseReturned /\ pos_index < 0

\* a token that does not begin with '-', or is exactly "-"
NonOption(t) == t = <<>> \/ Head(t) # "-" \/ Len(t) = 1

NoOptionTokens == \A n \in 1..(argc - 1) : NonOption(Arg(n))

\* the slots differ from s only where a default was applied
OnlyDefaultsApplied(s, t) ==
    \A d \in OptIdx :
        LET h == options[d].output_slot
        IN  t[h] # s[h] => /\ options[d].takes_argument = 1
                           /\ options[d].default_value # NULL
                           /\ t[h] = options[d].default_value

\* the positional arguments the demo has printed, in order
Printed ==
    LET ls == SelectSeq(out, LAMBDA l : l.line = "positional")
    IN  [n \in 1..Len(ls) |-> <<ls[n].n, ls[n].text>>]

Str_test_c == <<"t", "e", "s", "t", ".", "c">>

-----------------------------------------------------------------------------
(* C1 *)

C1_StopStep ==
    (pc = "parse" /\ i < argc /\ NonOption(Arg(i)))
        => /\ pc' = "check"
           /\ pos_index' = i
           /\ OnlyDefaultsApplied(slots, slots')

C1_NothingLater ==
    Succeeded => /\ \A n \in examined : 1 <= n /\ n <= pos_index
                 /\ \A e \in 1..Len(writes) : writes[e].at < pos_index

C1_NoOptions ==
    (ParseReturned /\ NoOptionTokens)
        => /\ pos_index = 1
           /\ slots = [InitSlots EXCEPT !.output_file = Str_test_c]
           /\ \A e \in 1..Len(writes) : writes[e].at = -1

C1_Demo ==
    (pc = "done" /\ NoOptionTokens)
        => /\ status = 0
           /\ Printed = [n \in 1..(argc - 1) |-> <<n, Arg(n)>>]

\* C1: the scan starts at index 1 and stops at the first token it reaches
\* that does not begin with '-' or is exactly "-": parse returns that token's
\* index, no later token is read or written for, and a vector without option
\* tokens yields index 1 with no slot changed except by the defaults (the
\* demo then lists every argument after the program name as positional).
C1_StopsAtFirstPositional ==
    /\ [](C1_NothingLater /\ C1_NoOptions /\ C1_Demo)
    /\ [][C1_StopStep]_vars

\* an option was parsed, the scan stopped at a positional token, and the
\* token after it looks like an option but left its slot alone
C1_Witness ==
    /\ Succeeded
    /\ pos_index = 2
    /\ argc = 4
    /\ Arg(1) = <<"-", "h">>
    /\ NonOption(Arg(2))
    /\ Arg(3) = <<"-", "v">>
    /\ slots.help_flag = 1
    /\ slots.verbose_flag = 0

-----------------------------------------------------------------------------
(* C2, C3, C4: one step of the scan at a flag or at a value option *)

FlagIdx == { d \in OptIdx : options[d].takes_argument = 0 }

ValueIdx == { d \in OptIdx : options[d].takes_argument = 1 }

AtToken == pc = "parse" /\ i < argc

\* "-c...", not "--..."
ShortForm(t) == Len(t) >= 2 /\ t[1] = "-" /\ t[2] # "-"

\* "--name" for descriptor d
LongForm(d) == <<"-", "-">> \o options[d].long_name

HasPrefix(t, p) == Len(t) >= Len(p) /\ SubSeq(t, 1, Len(p)) = p

Suffix(t, n) == SubSeq(t, n + 1, Len(t))

OtherSlotsKept(d) ==
    \A h \in DOMAIN slots : h # options[d].output_slot => slots'[h] = slots[h]

\* the step writes val to d's slot and goes on n tokens further
Consumes(d, val, n) ==
    /\ slots'[options[d].output_slot] = val
    /\ OtherSlotsKept(d)
    /\ pc' = "parse"
    /\ i' = i + n
    /\ j' = 1
    /\ examined' = examined \cup { m \in i..(i + n - 1) : TRUE }

MissingArgument(d) ==
    /\ pc' = "check"
    /\ pos_index' < 0
    /\ err' = [kind |-> "MissingArgument", opt |-> d]
    /\ slots' = slots

C2_LongStep ==
    \A d \in FlagIdx :
        (AtToken /\ options[d].long_name # NULL /\ Arg(i) = LongForm(d))
            => Consumes(d, 1, 1)

C2_ShortStep ==
    \A d \in FlagIdx :
        (AtToken /\ ShortForm(Arg(i)) /\ Arg(i)[j + 1] = options[d].short_name)
            => IF j + 1 = Len(Arg(i))
               THEN Consumes(d, 1, 1)
               ELSE /\ slots'[options[d].output_slot] = 1
                    /\ OtherSlotsKept(d)
                    /\ pc' = "parse"
                    /\ i' = i
                    /\ j' = j + 1

C2_Scenario ==
    (ParseReturned /\ argv = <<ProgName, <<"-", "h", "v">>>>)
        => /\ slots.help_flag = 1
           /\ slots.verbose_flag = 1
           /\ pos_index = 2

\* C2: every occurrence of a flag (takes_argument = false), as --name, as -c
\* or as one character of a combined short token, sets its slot to true; the
\* long and single-short forms consume exactly one token, a character inside
\* a cluster consumes that character only and the cursor moves on by 1 after
\* the last character of the cluster; ["prog", "-hv"] sets help and verbose
\* and returns 2.
C2_FlagSetsSlotAndConsumesOne ==
    /\ [][C2_LongStep /\ C2_ShortStep]_vars
    /\ []C2_Scenario

C2_Witness ==
    /\ pc = "check"
    /\ argv = <<ProgName, <<"-", "h", "v">>>>
    /\ slots.help_flag = 1
    /\ slots.verbose_flag = 1
    /\ pos_index = 2

C3_LongStep ==
    \A d \in ValueIdx :
        (/\ AtToken
         /\ options[d].long_name # NULL
         /\ HasPrefix(Arg(i), LongForm(d) \o <<"=">>))
            => Consumes(d, Suffix(Arg(i), Len(LongForm(d)) + 1), 1)

C3_ShortStep ==
    \A d \in ValueIdx :
        (/\ AtToken
         /\ ShortForm(Arg(i))
         /\ j = 1
         /\ Arg(i)[2] = options[d].short_name
         /\ Len(Arg(i)) > 2)
            => Consumes(d, Suffix(Arg(i), 2), 1)

C3_Scenario ==
    (/\ ParseReturned
     /\ argv = << ProgName,
                  <<"-", "-", "o", "u", "t", "p", "u", "t", "=", "x", ".", "c">>,
                  <<"i", "n", "1">> >>)
        => /\ slots.output_file = <<"x", ".", "c">>
           /\ pos_index = 2

\* C3: a value option given with an attached value, --name=v (v is all that
\* follows the first '=') or -cv (v is all that follows c), gets exactly v in
\* its slot and moves the cursor on by exactly 1, whatever the tokens around
\* it are: the following token is not read as the value.
\* ["prog", "--output=x.c", "in1"] gives output = "x.c" and index 2.
C3_AttachedValue ==
    /\ [][C3_LongStep /\ C3_ShortStep]_vars
    /\ []C3_Scenario

\* --output=x was parsed between two other tokens
C3_Witness ==
    /\ pc = "parse"
    /\ argc = 4
    /\ i = 3
    /\ Arg(1) = <<"-", "v">>
    /\ Arg(2) = <<"-", "-", "o", "u", "t", "p", "u", "t", "=", "x">>
    /\ Arg(3) = <<"-", "h">>
    /\ slots.output_file = <<"x">>

C4_LongStep ==
    \A d \in ValueIdx :
        (AtToken /\ options[d].long_name # NULL /\ Arg(i) = LongForm(d))
            => IF i + 1 < argc THEN Consumes(d, Arg(i + 1), 2)
               ELSE MissingArgument(d)

C4_ShortStep ==
    \A d \in ValueIdx :
        (/\ AtToken
         /\ ShortForm(Arg(i))
         /\ Arg(i)[j + 1] = options[d].short_name
         /\ j + 1 = Len(Arg(i)))
            => IF i + 1 < argc THEN Consumes(d, Arg(i + 1), 2)
               ELSE MissingArgument(d)

C4_Scenario ==
    /\ (/\ ParseReturned
        /\ argv = << ProgName, <<"-", "v">>, <<"-", "o">>,
                     <<"o", "u", "t", ".", "t", "x", "t">>, <<"a">>, <<"b">> >>)
            => /\ pos_index = 4
               /\ slots.verbose_flag = 1
               /\ slots.output_file = <<"o", "u", "t", ".", "t", "x", "t">>
    /\ (ParseReturned /\ argv = <<ProgName, <<"-", "o">>>>)
            => /\ pos_index < 0
               /\ err = [kind |-> "MissingArgument", opt |-> 3]
               /\ slots = InitSlots

\* C4: a value option without an attached value (--name, or -c as the last
\* character of its token) takes the whole next token as its value and moves
\* the cursor on by exactly 2; as the last token of the vector it fails with
\* MissingArgument for its descriptor and no index is returned.
\* ["prog","-v","-o","out.txt","a","b"] returns 4 with output = "out.txt";
\* ["prog","-o"] fails with MissingArgument.
C4_SeparateValue ==
    /\ [][C4_LongStep /\ C4_ShortStep]_vars
    /\ []C4_Scenario

\* the next token was taken as the value although it looks like an option
C4_Witness ==
    /\ pc = "parse"
    /\ argc = 4
    /\ i = 3
    /\ Arg(1) = <<"-", "-", "o", "u", "t", "p", "u", "t">>
    /\ Arg(2) = <<"-", "v">>
    /\ slots.output_file = <<"-", "v">>
    /\ slots.verbose_flag = 0

-----------------------------------------------------------------------------
(* C5: the slots after a successful parse *)

\* the scan (not the defaults) wrote d's slot
Supplied(d) == \E e \in 1..Len(writes) : writes[e].opt = d /\ writes[e].at >= 0

\* the value of the last occurrence of d in the scanned prefix
LastSupplied(d) ==
    LET es == { e \in 1..Len(writes) : writes[e].opt = d /\ writes[e].at >= 0 }
    IN  writes[CHOOSE e \in es : \A f \in es : f <= e].val

C5_Slots ==
    Succeeded =>
        \A d \in OptIdx :
            LET h == options[d].output_slot
            IN  IF Supplied(d) THEN slots[h] = LastSupplied(d)
                ELSE IF options[d].takes_argument = 1
                        /\ options[d].default_value # NULL
                     THEN slots[h] = options[d].default_value
                     ELSE slots[h] = InitSlots[h]

C5_Scenario ==
    /\ (Succeeded /\ argv = <<ProgName>>)
            => slots = [help_flag |-> 0, verbose_flag |-> 0,
                        output_file |-> Str_test_c, input_file |-> NULL]
    /\ (Succeeded /\ argv = <<ProgName, <<"-", "i">>, <<"a">>>>)
            => slots = [help_flag |-> 0, verbose_flag |-> 0,
                        output_file |-> Str_test_c, input_file |-> <<"a">>]
    /\ (Succeeded /\ argv = <<ProgName, <<"-", "o", "x">>, <<"-", "v">>>>)
            => slots = [help_flag |-> 0, verbose_flag |-> 1,
                        output_file |-> <<"x">>, input_file |-> NULL]

\* C5: after a successful parse a value option that was supplied holds the
\* supplied value and not the default; one that was never supplied holds its
\* default_value when it has one and the caller's initial value otherwise; a
\* flag that was never encountered keeps the caller's initial value.
C5_DefaultsAndSupplied == C5_Slots /\ C5_Scenario

\* -i was supplied, -o was not and got its default, the flags are untouched
C5_Witness ==
    /\ Succeeded
    /\ argv = <<ProgName, <<"-", "i">>, <<"a">>>>
    /\ Supplied(4)
    /\ ~Supplied(3)
    /\ slots.input_file = <<"a">>
    /\ slots.output_file = Str_test_c
    /\ slots.help_flag = 0

-----------------------------------------------------------------------------
(* C6: the terminator *)

C6_Step ==
    (AtToken /\ Arg(i) = <<"-", "-">>)
        => /\ pc' = "check"
           /\ pos_index' = i + 1
           /\ OnlyDefaultsApplied(slots, slots')
           /\ examined' = examined \cup {i}

C6_Scenario ==
    /\ (/\ ParseReturned
        /\ argv = << ProgName, <<"-", "-", "v", "e", "r", "b", "o", "s", "e">>,
                     <<"-", "-">>, <<"-", "h">>, <<"a">> >>)
            => /\ pos_index = 3
               /\ slots.verbose_flag = 1
               /\ slots.help_flag = 0
               /\ examined = {1, 2}
    /\ (ParseReturned /\ argv = <<ProgName, <<"-", "-">>>>)
            => pos_index = 2 /\ pos_index = argc

\* C6: when the scan reaches a token that is exactly "--" at index i it stops
\* and returns i + 1: the "--" is not positional and no token after it is
\* read as an option or written for, even one that names a known option;
\* with "--" as the last token the result is len(args).
C6_Terminator ==
    /\ [][C6_Step]_vars
    /\ [](C6_Scenario)

\* the scan stopped at "--" and the known option after it left its slot alone
C6_Witness ==
    /\ Succeeded
    /\ argc = 4
    /\ Arg(1) = <<"-", "v">>
    /\ Arg(2) = <<"-", "-">>
    /\ Arg(3) = <<"-", "h">>
    /\ pos_index = 3
    /\ slots.verbose_flag = 1
    /\ slots.help_flag = 0

-----------------------------------------------------------------------------
(* C7: the parse errors *)

\* the step fails with the given error and changes no slot
FailsWith(kind, d) ==
    /\ pc' = "check"
    /\ pos_index' < 0
    /\ err' = [kind |-> kind, opt |-> d]
    /\ slots' = slots
    /\ i' = i
    /\ examined' = examined \cup {i}

\* the long token t names descriptor d, with or without a value
Names(t, d) ==
    /\ options[d].long_name # NULL
    /\ t = LongForm(d) \/ HasPrefix(t, LongForm(d) \o <<"=">>)

C7_UnknownLong ==
    (/\ AtToken
     /\ HasPrefix(Arg(i), <<"-", "-">>)
     /\ Len(Arg(i)) > 2
     /\ \A d \in OptIdx : ~Names(Arg(i), d))
        => FailsWith("UnknownOption", 0)

C7_UnknownShort ==
    (/\ AtToken
     /\ ShortForm(Arg(i))
     /\ \A d \in OptIdx : options[d].short_name # Arg(i)[j + 1])
        => FailsWith("UnknownOption", 0)

C7_UnexpectedValue ==
    \A d \in FlagIdx :
        (/\ AtToken
         /\ options[d].long_name # NULL
         /\ HasPrefix(Arg(i), LongForm(d) \o <<"=">>))
            => FailsWith("UnexpectedValue", d)

C7_Failed ==
    Failed => /\ i < argc
              /\ \A n \in examined : n <= i
              /\ \A e \in 1..Len(writes) : writes[e].at <= i
              /\ err.kind \in {"UnknownOption", "MissingArgument",
                               "UnexpectedValue"}
              /\ pc \in {"check", "done"}
              /\ out = <<>>
              /\ pc = "done" => status = 1

C7_Scenario ==
    (ParseReturned /\ argv = <<ProgName, <<"-", "-", "b", "o", "g", "u", "s">>>>)
        => /\ pos_index < 0
           /\ err.kind = "UnknownOption"
           /\ Arg(i) = <<"-", "-", "b", "o", "g", "u", "s">>

\* C7: every parse error ends the scan at the failing token with a failure
\* instead of an index: an unknown long name or an unknown short character
\* (anywhere in a cluster) is UnknownOption, --flag=value for a flag is
\* UnexpectedValue and leaves the flag unset; no later token is read; the
\* demo exits with status 1 and prints neither help nor results, also when
\* the help flag was set earlier in the scan.
C7_ErrorsEndTheScan ==
    /\ [][C7_UnknownLong /\ C7_UnknownShort /\ C7_UnexpectedValue]_vars
    /\ [](C7_Failed /\ C7_Scenario)

\* help was set, then the scan failed: the demo has exited with status 1
C7_Witness ==
    /\ pc = "done"
    /\ status = 1
    /\ out = <<>>
    /\ slots.help_flag = 1
    /\ err.kind = "UnknownOption"
    /\ argv = <<ProgName, <<"-", "h">>, <<"-", "-", "b", "o", "g", "u", "s">>,
                <<"-", "v">>>>
    /\ slots.verbose_flag = 0

-----------------------------------------------------------------------------
(* C8: how often a slot is written *)

\* writes of the scan to d's slot at token n; n = -1: writes of the defaults
WritesAt(d, n) ==
    Cardinality({ e \in 1..Len(writes) : writes[e].opt = d /\ writes[e].at = n })

WritesTo(d) ==
    Cardinality({ e \in 1..Len(writes) : writes[e].opt = d })

\* occurrences of option d in token t
Occurrences(d, t) ==
    IF ShortForm(t)
    THEN Cardinality({ m \in 2..Len(t) : t[m] = options[d].short_name })
    ELSE IF Names(t, d) THEN 1 ELSE 0

\* C8 as stated: during one parse pass every option's slot is written at
\* most once, also when the option occurs several times and counting the
\* defaults applied at the end of the scan.
C8_WrittenAtMostOnce == \A d \in OptIdx : WritesTo(d) <= 1

C8_PerOccurrence ==
    \A d \in OptIdx :
        /\ \A n \in 1..(argc - 1) : WritesAt(d, n) <= Occurrences(d, Arg(n))
        /\ WritesAt(d, -1) <= 1
        /\ WritesAt(d, -1) = 1 => WritesTo(d) = 1

C8_OneWritePerStep ==
    /\ Len(writes') <= Len(writes) + 1 \/ pc' = "check"
    /\ SubSeq(writes', 1, Len(writes)) = writes

C8_Repeated ==
    (ParseReturned /\ argv = <<ProgName, <<"-", "v">>, <<"-", "v">>>>)
        => WritesTo(2) = 2 /\ slots.verbose_flag = 1

\* C8 amended: during one parse pass a slot is written at most once for
\* every occurrence of its option in the vector (["prog","-v","-v"] writes
\* the verbose slot twice), each step of the scan writes at most one slot,
\* and the defaults at the end write a slot at most once and only if the
\* scan never wrote it.
C8_WrittenOncePerOccurrence ==
    /\ [](C8_PerOccurrence /\ C8_Repeated)
    /\ [][C8_OneWritePerStep]_vars

\* the same option given by its short form twice and by its long form once
C8_Witness ==
    /\ ParseReturned
    /\ WritesTo(3) = 3
    /\ Arg(1) = <<"-", "o", "x">>
    /\ Arg(2) = <<"-", "-", "o", "u", "t", "p", "u", "t", "=", "x">>
    /\ Arg(3) = <<"-", "v", "o", "x">>
    /\ WritesAt(3, -1) = 0

-----------------------------------------------------------------------------
(* C9: a value option inside a combined short token *)

C9_Step ==
    \A d \in ValueIdx :
        (/\ AtToken
         /\ ShortForm(Arg(i))
         /\ j >= 2
         /\ Arg(i)[j + 1] = options[d].short_name)
            => IF j + 1 < Len(Arg(i))
               THEN Consumes(d, Suffix(Arg(i), j + 1), 1)
               ELSE IF i + 1 < argc THEN Consumes(d, Arg(i + 1), 2)
                    ELSE MissingArgument(d)

\* inside a cluster every character before the cursor was a flag, now set
C9_FlagsBefore ==
    (AtToken /\ ShortForm(Arg(i)))
        => /\ j >= 1 /\ j < Len(Arg(i))
           /\ \A m \in 2..j :
                \E d \in FlagIdx : /\ options[d].short_name = Arg(i)[m]
                                   /\ slots[options[d].output_slot] = 1

C9_Scenario ==
    /\ (ParseReturned /\ argv = <<ProgName, <<"-", "v", "o", "x">>>>)
            => /\ pos_index = 2
               /\ slots.verbose_flag = 1
               /\ slots.output_file = <<"x">>
    /\ (ParseReturned
        /\ argv = <<ProgName, <<"-", "v", "o", "h", "i">>, <<"a">>>>)
            => /\ pos_index = 2
               /\ slots = [help_flag |-> 0, verbose_flag |-> 1,
                           output_file |-> <<"h", "i">>, input_file |-> NULL]
    /\ (ParseReturned /\ argv = <<ProgName, <<"-", "v", "o">>, <<"-", "h">>>>)
            => /\ pos_index = 3
               /\ slots.output_file = <<"-", "h">>
               /\ slots.help_flag = 0
    /\ (ParseReturned /\ argv = <<ProgName, <<"-", "v", "o">>>>)
            => /\ pos_index < 0
               /\ err = [kind |-> "MissingArgument", opt |-> 3]
               /\ slots.verbose_flag = 1

\* C9: in a combined short token a value option that follows one or more
\* flags ends the token: the flags before it are set, the characters after
\* it are its value and are not read as options, and the cursor moves on by
\* 1; with no characters after it the next whole token is the value and the
\* cursor moves on by 2; with neither, parse fails with MissingArgument.
C9_ValueOptionInCluster ==
    /\ [][C9_Step]_vars
    /\ [](C9_FlagsBefore /\ C9_Scenario)

\* "-vohi": v was set, "hi" is the value of o, h and i were not read as options
C9_Witness ==
    /\ Succeeded
    /\ argv = <<ProgName, <<"-", "v", "o", "h", "i">>, <<"a">>>>
    /\ slots.verbose_flag = 1
    /\ slots.output_file = <<"h", "i">>
    /\ slots.help_flag = 0
    /\ slots.input_file = NULL
    /\ pos_index = 2

-----------------------------------------------------------------------------
(* C10: termination and the range of the result *)

MaxOf(S) == CHOOSE n \in S : \A m \in S : m <= n

\* longer than any token of the vector
Width == 1 + MaxOf({ Len(argv[n]) : n \in 1..argc })

\* a natural number that every step makes smaller
Rank ==
    CASE pc = "parse" -> 2 * argc + 4 + (argc - i) * Width + (Width - j)
      [] pc = "check" -> argc + 3
      [] pc = "loop"  -> argc + 1 - k
      [] pc = "done"  -> 0

C10_Range ==
    /\ 1 <= i /\ i <= argc
    /\ Succeeded => 1 <= pos_index /\ pos_index <= argc
    /\ pc = "loop" => pos_index <= k /\ k <= argc
    /\ \A n \in 1..Len(out) : out[n].text # NULL
    /\ (pc = "done" /\ status = 0 /\ slots.help_flag = 0)
            => Printed = [n \in 1..(argc - pos_index) |->
                            <<n, Arg(pos_index + n - 1)>>]

C10_CursorStep ==
    (pc = "parse" /\ pc' = "parse")
        => \/ i' = i + 1
           \/ i' = i + 2
           \/ i' = i /\ j' = j + 1 /\ j' < Len(Arg(i))

C10_RankStep == Rank' < Rank /\ Rank' >= 0

\* C10: parse terminates for every vector: the cursor starts at 1, grows by
\* 1 or 2 at every token it passes and never passes len(args), so every run
\* ends in a failure or in an index p with 1 <= p <= len(args), p = len(args)
\* exactly when there is no positional argument; the demo's loop over
\* args[p .. len(args) - 1] never reads outside the vector.
C10_Terminates ==
    /\ []C10_Range
    /\ [][C10_CursorStep /\ C10_RankStep]_vars
    /\ <>(pc = "done")

\* the demo has printed two positional arguments that follow a two-token option
C10_Witness ==
    /\ pc = "done"
    /\ status = 0
    /\ argc = 6
    /\ pos_index = 4
    /\ Printed = << <<1, <<"a">>>>, <<2, <<"b">>>> >>

FairSpec == Spec /\ WF_vars(Next)

====
